---- MODULE Spec2Model ----
(***************************************************************************)
(* Episode state machine of gym-bullet-chess: BulletChessEnv.reset/step,   *)
(* the action codec (int_to_move), the observation encoder and the        *)
(* real-time clock accounting, over a model of the python-chess board the  *)
(* environment drives.                                                     *)
(*                                                                         *)
(* Time is counted in ticks of 0.1 s.  A float is a record                 *)
(* [cls, val]: cls is "fin" (val ticks), "nan", "pinf" or "ninf".          *)
(***************************************************************************)
EXTENDS Integers, Sequences, FiniteSets, TLC

\* ------------------------------------------------------------------------
\* python-chess vocabulary used by the environment
\* ------------------------------------------------------------------------

\* chess.WHITE / chess.BLACK (python-chess: colors are booleans)
WHITE == TRUE
BLACK == FALSE

\* chess.PAWN .. chess.KING: piece_type P=1 ... K=6
PAWN == 1
KNIGHT == 2
BISHOP == 3
ROOK == 4
QUEEN == 5
KING == 6

\* chess.SQUARES: a1 = 0 ... h8 = 63
SQUARES == 0..63

\* A square of the board holds 0 (empty) or a piece code:
\* piece_type for White, 6 + piece_type for Black.
PieceCode(color, piece_type) == IF color = WHITE THEN piece_type ELSE 6 + piece_type

PieceColor(code) == IF code <= 6 THEN WHITE ELSE BLACK

PieceType(code) == IF code <= 6 THEN code ELSE code - 6

\* chess.square_rank / chess.square_file
square_rank(sq) == sq \div 8

square_file(sq) == sq % 8

Abs(x) == IF x < 0 THEN -x ELSE x

Sgn(x) == IF x > 0 THEN 1 ELSE IF x < 0 THEN -1 ELSE 0

Max2(a, b) == IF a >= b THEN a ELSE b

\* chess.Move(from_square, to_square, promotion); promotion 0 is None
Move(from_sq, to_sq, promotion) ==
    [from_square |-> from_sq, to_square |-> to_sq, promotion |-> promotion]

\* Back rank of each color, as placed by chess.Board() / Board.reset()
BackRank == <<ROOK, KNIGHT, BISHOP, QUEEN, KING, BISHOP, KNIGHT, ROOK>>

StartingPieces ==
    [sq \in SQUARES |->
        CASE square_rank(sq) = 0 -> PieceCode(WHITE, BackRank[square_file(sq) + 1])
          [] square_rank(sq) = 1 -> PieceCode(WHITE, PAWN)
          [] square_rank(sq) = 6 -> PieceCode(BLACK, PAWN)
          [] square_rank(sq) = 7 -> PieceCode(BLACK, BackRank[square_file(sq) + 1])
          [] OTHER -> 0]

\* chess.Board() after reset(): starting position, White to move, all four
\* castling rights (kept as the set of rook squares, as python-chess does),
\* no en-passant square.  ep_square is {} for None, {sq} otherwise.
StartingBoard ==
    [pieces |-> StartingPieces,
     turn |-> WHITE,
     castling_rights |-> {0, 7, 56, 63},
     ep_square |-> {}]

\* Squares strictly between two aligned squares
Between(a, b) ==
    LET dr == square_rank(b) - square_rank(a)
        df == square_file(b) - square_file(a)
        n == Max2(Abs(dr), Abs(df))
        step == 8 * Sgn(dr) + Sgn(df)
    IN {a + k * step : k \in 1..(n - 1)}

\* Whether the piece standing on square a attacks square b (a # b)
Attacks(pieces, a, b) ==
    LET code == pieces[a]
        pt == PieceType(code)
        dr == square_rank(b) - square_rank(a)
        df == square_file(b) - square_file(a)
        adr == Abs(dr)
        adf == Abs(df)
        clear == \A s \in Between(a, b) : pieces[s] = 0
    IN CASE pt = PAWN -> adf = 1 /\ dr = (IF PieceColor(code) = WHITE THEN 1 ELSE -1)
         [] pt = KNIGHT -> (adr = 1 /\ adf = 2) \/ (adr = 2 /\ adf = 1)
         [] pt = KING -> adr <= 1 /\ adf <= 1
         [] pt = BISHOP -> adr = adf /\ clear
         [] pt = ROOK -> (dr = 0 \/ df = 0) /\ clear
         [] pt = QUEEN -> (adr = adf \/ dr = 0 \/ df = 0) /\ clear
         [] OTHER -> FALSE

\* Board.is_attacked_by(color, square)
is_attacked_by(pieces, color, sq) ==
    \E a \in SQUARES :
        /\ pieces[a] # 0
        /\ PieceColor(pieces[a]) = color
        /\ a # sq
        /\ Attacks(pieces, a, sq)

\* Board.king(color): the square of that color's king
king(pieces, color) == CHOOSE sq \in SQUARES : pieces[sq] = PieceCode(color, KING)

\* Board.is_check(): the side to move is attacked on its king square
is_check(b) == is_attacked_by(b.pieces, ~b.turn, king(b.pieces, b.turn))

\* Promotion piece types a pawn move to the last rank must carry
PromotionTypes == {KNIGHT, BISHOP, ROOK, QUEEN}

\* The last rank for a pawn of the color: rank 7 for White, rank 0 for Black
LastRank(color) == IF color = WHITE THEN 7 ELSE 0

\* Index of a square in python-chess's 64-entry tables (BB_SQUARES[square]):
\* a Python list index, so -64..-1 address the list from its end.
TableIndex(sq) == IF sq < 0 THEN sq + 64 ELSE sq

\* Board.generate_castling_moves(): the king moves two files towards a rook it
\* still has rights with; the squares between are empty and the king's
\* square and path are not attacked.
IsCastlingMove(b, m) ==
    LET color == b.turn
        home == IF color = WHITE THEN 4 ELSE 60
        kingside == m.to_square = home + 2
        rook_sq == IF kingside THEN home + 3 ELSE home - 4
        path == IF kingside THEN {home + 1, home + 2} ELSE {home - 1, home - 2}
    IN /\ m.from_square = home
       /\ m.to_square \in {home + 2, home - 2}
       /\ m.promotion = 0
       /\ b.pieces[home] = PieceCode(color, KING)
       /\ rook_sq \in b.castling_rights
       /\ b.pieces[rook_sq] = PieceCode(color, ROOK)
       /\ \A s \in Between(home, rook_sq) : b.pieces[s] = 0
       /\ \A s \in path \cup {home} : ~is_attacked_by(b.pieces, ~color, s)

\* Board.generate_pseudo_legal_moves() restricted to one pawn move: captures,
\* single and double advances, en passant; a move to the last rank carries a
\* promotion piece and no other move does.
IsPawnMove(b, m) ==
    LET color == b.turn
        from == m.from_square
        to == m.to_square
        dir == IF color = WHITE THEN 1 ELSE -1
        dr == square_rank(to) - square_rank(from)
        adf == Abs(square_file(to) - square_file(from))
        diagonal == adf = 1 /\ dr = dir
    IN /\ (square_rank(to) = LastRank(color)) <=> (m.promotion \in PromotionTypes)
       /\ m.promotion \in PromotionTypes \cup {0}
       /\ \/ diagonal /\ b.pieces[to] # 0 /\ PieceColor(b.pieces[to]) # color
          \/ to = from + 8 * dir /\ b.pieces[to] = 0
          \/ /\ square_rank(from) = (IF color = WHITE THEN 1 ELSE 6)
             /\ to = from + 16 * dir
             /\ b.pieces[from + 8 * dir] = 0
             /\ b.pieces[to] = 0
          \/ /\ to \in b.ep_square
             /\ diagonal
             /\ b.pieces[to] = 0
             /\ square_rank(from) = (IF color = WHITE THEN 4 ELSE 3)

\* Board.is_pseudo_legal(move), for a move whose from-square is on the board
is_pseudo_legal(b, m) ==
    LET from == m.from_square
        to == m.to_square
        code == b.pieces[from]
        pt == PieceType(code)
    IN /\ code # 0
       /\ PieceColor(code) = b.turn
       /\ (m.promotion # 0) => (pt = PAWN /\ square_rank(to) = LastRank(b.turn))
       /\ \/ pt = KING /\ IsCastlingMove(b, m)
          \/ /\ ~(b.pieces[to] # 0 /\ PieceColor(b.pieces[to]) = b.turn)
             /\ IF pt = PAWN
                THEN IsPawnMove(b, m)
                ELSE from # to /\ Attacks(b.pieces, from, to)

\* Board.push(move): applies the move and passes the turn.  The piece is
\* taken from the table entry of the from-square (TableIndex).
push(b, m) ==
    LET color == b.turn
        from == TableIndex(m.from_square)
        to == m.to_square
        code == b.pieces[from]
        pt == PieceType(code)
        diff == to - m.from_square
        is_ep == /\ pt = PAWN
                 /\ to \in b.ep_square
                 /\ Abs(diff) \in {7, 9}
                 /\ b.pieces[to] = 0
        is_castle == pt = KING /\ m.from_square \in {4, 60} /\ Abs(diff) = 2
        placed == IF m.promotion # 0 THEN PieceCode(color, m.promotion) ELSE code
        moved == [b.pieces EXCEPT ![from] = 0, ![to] = placed]
        after_ep ==
            IF is_ep
            THEN [moved EXCEPT ![IF color = WHITE THEN to - 8 ELSE to + 8] = 0]
            ELSE moved
        after_castle ==
            IF is_castle
            THEN IF diff = 2
                 THEN [after_ep EXCEPT ![from + 3] = 0, ![from + 1] = PieceCode(color, ROOK)]
                 ELSE [after_ep EXCEPT ![from - 4] = 0, ![from - 1] = PieceCode(color, ROOK)]
            ELSE after_ep
        own_corners == IF color = WHITE THEN {0, 7} ELSE {56, 63}
        rights ==
            (b.castling_rights \ {from, to}) \ (IF pt = KING THEN own_corners ELSE {})
        ep ==
            IF pt = PAWN /\ diff = 16 /\ square_rank(m.from_square) = 1 THEN {from + 8}
            ELSE IF pt = PAWN /\ diff = -16 /\ square_rank(m.from_square) = 6 THEN {from - 8}
            ELSE {}
    IN [pieces |-> after_castle,
        turn |-> ~color,
        castling_rights |-> rights,
        ep_square |-> ep]

\* Board.is_into_check(move) negated: after the move the mover's king is not
\* attacked
LeavesKingSafe(b, m) ==
    LET nb == push(b, m)
    IN ~is_attacked_by(nb.pieces, ~b.turn, king(nb.pieces, b.turn))

\* Board.is_legal(move) for a move whose from-square is in 0..63
IsLegalOnBoard(b, m) == is_pseudo_legal(b, m) /\ LeavesKingSafe(b, m)

\* Candidate moves of the side to move: every own piece to every square,
\* with each promotion piece for a pawn reaching the last rank.
CandidateMoves(b) ==
    LET own == {s \in SQUARES : b.pieces[s] # 0 /\ PieceColor(b.pieces[s]) = b.turn}
    IN {Move(f, t, 0) : f \in own, t \in SQUARES}
       \cup {Move(f, t, p) :
                f \in {s \in own : PieceType(b.pieces[s]) = PAWN},
                t \in {s \in SQUARES : square_rank(s) = LastRank(b.turn)},
                p \in PromotionTypes}

\* Board.legal_moves as a set
legal_moves(b) == {m \in CandidateMoves(b) : IsLegalOnBoard(b, m)}

\* Whether the side to move has a legal move at all
HasLegalMove(b) ==
    \E f \in SQUARES :
        /\ b.pieces[f] # 0
        /\ PieceColor(b.pieces[f]) = b.turn
        /\ \E t \in SQUARES :
              IF PieceType(b.pieces[f]) = PAWN /\ square_rank(t) = LastRank(b.turn)
              THEN IsLegalOnBoard(b, Move(f, t, QUEEN))
              ELSE IsLegalOnBoard(b, Move(f, t, 0))

\* Board.is_checkmate() / Board.is_stalemate()
is_checkmate(b) == is_check(b) /\ ~HasLegalMove(b)

is_stalemate(b) == ~is_check(b) /\ ~HasLegalMove(b)

\* Board.is_game_over(): checkmate or stalemate.  The draws by insufficient
\* material, the 75-move rule and fivefold repetition need more plies than
\* the bounded episodes of this model contain and are not tracked.
is_game_over(b) == ~HasLegalMove(b)

\* Board.result(): "1-0", "0-1", "1/2-1/2", or "*" while the game is on
result(b) ==
    IF is_checkmate(b) THEN (IF b.turn = WHITE THEN "0-1" ELSE "1-0")
    ELSE IF is_stalemate(b) THEN "1/2-1/2"
    ELSE "*"

\* Board.is_legal(move) as `move in board.legal_moves` evaluates it.  A
\* from-square in -64..-1 addresses python-chess's tables from their end: the
\* piece found there is moved if it is a knight, bishop, rook, queen or king
\* of the side to move, the side to move is not in check and the target is
\* attacked by that piece; a pawn move never equals a generated move.
is_legal(b, m) ==
    IF m.from_square >= 0
    THEN IsLegalOnBoard(b, m)
    ELSE LET f == TableIndex(m.from_square)
             code == b.pieces[f]
             pt == PieceType(code)
         IN /\ code # 0
            /\ PieceColor(code) = b.turn
            /\ m.promotion = 0
            /\ pt # PAWN
            /\ ~(b.pieces[m.to_square] # 0 /\ PieceColor(b.pieces[m.to_square]) = b.turn)
            /\ f # m.to_square
            /\ Attacks(b.pieces, f, m.to_square)
            /\ ~is_check(b)
            /\ (pt = KING \/ LeavesKingSafe(b, m))

\* Board.has_kingside_castling_rights(color) / has_queenside_castling_rights
has_kingside_castling_rights(b, color) ==
    (IF color = WHITE THEN 7 ELSE 63) \in b.castling_rights

has_queenside_castling_rights(b, color) ==
    (IF color = WHITE THEN 0 ELSE 56) \in b.castling_rights

\* ------------------------------------------------------------------------
\* utils/encoding.py
\* ------------------------------------------------------------------------

\* get_board_tensor: the (8, 8, 12) tensor, given by the set of its
\* <<rank, file, layer>> entries that are 1.0; every other entry is 0.0.
get_board_tensor(b) ==
    {<<square_rank(sq), square_file(sq),
       (IF PieceColor(b.pieces[sq]) = WHITE THEN 0 ELSE 6) + (PieceType(b.pieces[sq]) - 1)>> :
        sq \in {s \in SQUARES : b.pieces[s] # 0}}

\* A faulty variant of TimeNorm: the max(0.0, ...) is left out
Unclamped(time, max_time) == [num |-> time, den |-> max_time]

\* max(0.0, time / max_time), kept as the fraction num / den
TimeNorm(time, max_time) == [num |-> Max2(0, time), den |-> max_time]

Flag(cond) == IF cond THEN 1 ELSE 0

\* get_state_vector: [turn, WK, WQ, BK, BQ castling, en passant, W time, B time]
get_state_vector(b, white_time, black_time, max_time) ==
    <<Flag(b.turn = WHITE),
      Flag(has_kingside_castling_rights(b, WHITE)),
      Flag(has_queenside_castling_rights(b, WHITE)),
      Flag(has_kingside_castling_rights(b, BLACK)),
      Flag(has_queenside_castling_rights(b, BLACK)),
      Flag(b.ep_square # {}),
      TimeNorm(white_time, max_time),
      TimeNorm(black_time, max_time)>>

\* decode_action_to_squares: Python's // and % (floor division, remainder in
\* 0..63), which is also what \div and % are on the integers.
decode_action_to_squares(action_idx) == <<action_idx \div 64, action_idx % 64>>

\* board.piece_at(from_sq) raises IndexError outside python-chess's tables
PieceAtRaises(action_idx) ==
    LET from_sq == decode_action_to_squares(action_idx)[1]
    IN from_sq < -64 \/ from_sq > 63

\* A faulty variant of int_to_move: the last rank is that of the side to
\* move, not that of the pawn's color
DecodeForSideToMove(action_idx, b) ==
    LET sqs == decode_action_to_squares(action_idx)
        piece == b.pieces[TableIndex(sqs[1])]
        promotion ==
            IF /\ piece # 0
               /\ PieceType(piece) = PAWN
               /\ square_rank(sqs[2]) = (IF b.turn = WHITE THEN 7 ELSE 0)
            THEN QUEEN
            ELSE 0
    IN Move(sqs[1], sqs[2], promotion)

\* int_to_move: the move of an action index, with auto-queen promotion
int_to_move(action_idx, b) ==
    LET sqs == decode_action_to_squares(action_idx)
        from_sq == sqs[1]
        to_sq == sqs[2]
        piece == b.pieces[TableIndex(from_sq)]
        rank == square_rank(to_sq)
        promotion ==
            IF /\ piece # 0
               /\ PieceType(piece) = PAWN
               /\ \/ PieceColor(piece) = WHITE /\ rank = 7
                  \/ PieceColor(piece) = BLACK /\ rank = 0
            THEN QUEEN
            ELSE 0
    IN Move(from_sq, to_sq, promotion)

\* ------------------------------------------------------------------------
\* envs/bullet_chess_env.py: BulletChessEnv
\* ------------------------------------------------------------------------

\* self.initial_time, in ticks.  The source sets 60.0 s (600 ticks); the model
\* runs the same clock arithmetic on a short allotment so that both clocks
\* can run out within a bounded episode.
initial_time == 3

\* self.np_random.uniform(0.1, 0.5), in ticks
OppCostLow == 1
OppCostHigh == 5

\* How far below zero the model lets the agent's elapsed time push a clock
MaxOverrun == 1

\* How many draws the model lets a generator make: one opponent ply (a move
\* and a think time) from OS entropy, two from a seed
MaxEntropyDraws == 2
MaxSeededDraws == 4

\* Floats handed to step as the elapsed time
Fin(v) == [cls |-> "fin", val |-> v]

NaN == [cls |-> "nan", val |-> 0]

PosInf == [cls |-> "pinf", val |-> 0]

NegInf == [cls |-> "ninf", val |-> 0]

\* Seeds handed to reset
Seeds == {1, 2}

\* The raw outputs of the generator seeded with each seed, standing for the
\* PCG64 stream; the stream repeats after its last entry.  Against 1.f3 and
\* 2.g4 both streams answer e7e5 and Qd8h4 mate, against 1.e4 and 2.Qh5 they
\* answer e7e5 and Ke8e7; the think times are 0.1 s and 0.1 s under seed 1,
\* 0.1 s and 0.2 s under seed 2.
Stream(seed) == IF seed = 1 THEN <<8, 0, 17, 0>> ELSE <<8, 0, 17, 1>>

\* The generator behind self.np_random: unseeded (seeded from OS entropy, so
\* any draw is possible) until reset(seed=...) seeds it; n counts its draws.
Unseeded == [seeded |-> FALSE, seed |-> 0, n |-> 0]

Seeded(seed) == [seeded |-> TRUE, seed |-> seed, n |-> 0]

\* The n-th raw output of the generator seeded with seed
BitGenerator(seed, n) == Stream(seed)[(n % Len(Stream(seed))) + 1]

\* Order of list(self.board.legal_moves): a fixed order on moves
MoveKey(m) == (m.from_square * 64 + m.to_square) * 8 + m.promotion

\* The k-th (from 0) move of the legal-move list
NthMove(legal, k) ==
    CHOOSE m \in legal : Cardinality({x \in legal : MoveKey(x) < MoveKey(m)}) = k

\* _get_obs
_get_obs(e) ==
    [board |-> get_board_tensor(e.board),
     state |-> get_state_vector(e.board, e.white_time, e.black_time, initial_time)]

\* __init__: the environment as constructed
Constructed(self_play) ==
    [board |-> StartingBoard,
     white_time |-> initial_time,
     black_time |-> initial_time,
     self_play |-> self_play,
     np_random |-> Unseeded]

\* What a call hands back: kind is "step" for step's 5-tuple, "reset" for
\* reset's (obs, {}), "raise" for an exception leaving step, "init" before any
\* call.  info is the set of its <<key, value>> items.
NoReturn ==
    [kind |-> "init", obs |-> <<>>, reward |-> 0, terminated |-> FALSE,
     truncated |-> FALSE, info |-> {}]

Returned(e, reward, terminated, info) ==
    [env |-> e,
     ret |-> [kind |-> "step", obs |-> _get_obs(e), reward |-> reward,
              terminated |-> terminated, truncated |-> FALSE, info |-> info]]

Raised(e, exception) ==
    [env |-> e,
     ret |-> [kind |-> "raise", obs |-> <<>>, reward |-> 0, terminated |-> FALSE,
              truncated |-> FALSE, info |-> {<<"exception", exception>>}]]

\* Options handed to reset: no options, or {"self_play": value}
NoOptions == [given |-> FALSE, self_play |-> FALSE]

SelfPlayOption(value) == [given |-> TRUE, self_play |-> value]

\* A faulty variant of SeedGenerator: the seed is dropped and the generator
\* carries on from where it was
KeepGenerator(np_random, seed_given, seed) == np_random

\* super().reset(seed=seed): seeds the generator when a seed is given
SeedGenerator(np_random, seed_given, seed) ==
    IF seed_given THEN Seeded(seed) ELSE np_random

\* A faulty variant of OverrideSelfPlay: the option is ignored
KeepSelfPlay(self_play, options) == self_play

\* reset, lines 79-81: the self_play override
OverrideSelfPlay(self_play, options) ==
    IF options.given THEN options.self_play ELSE self_play

\* reset(seed, options)
reset(e, seed_given, seed, options) ==
    LET e1 == [board |-> StartingBoard,
               white_time |-> initial_time,
               black_time |-> initial_time,
               self_play |-> OverrideSelfPlay(e.self_play, options),
               np_random |-> SeedGenerator(e.np_random, seed_given, seed)]
    IN [env |-> e1,
        ret |-> [kind |-> "reset", obs |-> _get_obs(e1), reward |-> 0,
                 terminated |-> FALSE, truncated |-> FALSE, info |-> {}]]

\* step, lines 104-113: the action is a bare index ("int") or a tuple/list of
\* one ("tuple1") or two ("tuple2") items
ElapsedOf(action) == IF action.form = "tuple2" THEN action.elapsed ELSE Fin(0)

\* A faulty variant of SanitizeElapsed: the test for a negative value is
\* left out
FiniteOnly(x) == IF x.cls # "fin" THEN 0 ELSE x.val

\* A faulty variant of SanitizeElapsed: the elapsed time is charged as given
Unsanitized(x) == x.val

\* step, lines 115-117: non-finite or negative elapsed time counts as 0.0
SanitizeElapsed(x) == IF x.cls # "fin" \/ x.val < 0 THEN 0 ELSE x.val

\* step, lines 119-125: the side to move pays the elapsed time
ChargeClock(e, t) ==
    IF e.board.turn = WHITE
    THEN [e EXCEPT !.white_time = @ - t]
    ELSE [e EXCEPT !.black_time = @ - t]

\* A faulty variant of IsExpired: a clock at exactly zero still runs
IsBelowZero(time) == time < 0

\* is_expired: step's `<= 0` test on a clock
IsExpired(time) == time <= 0

\* _handle_game_over, lines 196-203: the reward from White's side
BaseReward(res) == IF res = "1-0" THEN 1 ELSE IF res = "0-1" THEN -1 ELSE 0

\* A faulty variant of MoverReward: the reward stays in White's perspective
NeverFlipped(self_play, turn, base) == base

\* _handle_game_over, lines 210-215: the reward of the side that just moved
MoverReward(self_play, turn, base) ==
    IF self_play /\ turn = WHITE THEN -base ELSE base

\* _handle_game_over
_handle_game_over(e) ==
    LET res == result(e.board)
        reward == MoverReward(e.self_play, e.board.turn, BaseReward(res))
    IN Returned(e, reward, TRUE, {<<"result", res>>})

\* step, lines 164 and 169: the opponent's move and think time.  A seeded
\* generator gives one draw; an unseeded one may give any.
OpponentDraws(e, legal) ==
    LET r == e.np_random
    IN IF r.seeded
       THEN {[move |-> NthMove(legal, BitGenerator(r.seed, r.n) % Cardinality(legal)),
              cost |-> OppCostLow
                       + (BitGenerator(r.seed, r.n + 1) % (OppCostHigh - OppCostLow + 1)),
              np_random |-> [r EXCEPT !.n = @ + 2]]}
       ELSE {[move |-> m, cost |-> c, np_random |-> [r EXCEPT !.n = @ + 2]] :
                m \in legal, c \in OppCostLow..OppCostHigh}

\* A faulty variant of AfterOpponent: the position is looked at before the
\* opponent's clock
GameOverFirst(e) ==
    IF is_game_over(e.board)
    THEN _handle_game_over(e)
    ELSE IF IsExpired(e.black_time)
    THEN Returned(e, 1, TRUE, {<<"reason", "opponent_timeout">>})
    ELSE Returned(e, 0, FALSE, {})

\* step, lines 172-179: the checks that follow the opponent's ply
AfterOpponent(e) ==
    IF IsExpired(e.black_time)
    THEN Returned(e, 1, TRUE, {<<"reason", "opponent_timeout">>})
    ELSE IF is_game_over(e.board)
    THEN _handle_game_over(e)
    ELSE Returned(e, 0, FALSE, {})

\* A faulty variant of OpponentReply: the think time is taken from White's
\* clock
OpponentChargesWhite(e, d) ==
    AfterOpponent([e EXCEPT !.board = push(@, d.move),
                            !.white_time = @ - d.cost,
                            !.np_random = d.np_random])

\* A faulty variant of OpponentReply: the think time is drawn but not charged
OpponentUncharged(e, d) ==
    AfterOpponent([e EXCEPT !.board = push(@, d.move),
                            !.np_random = d.np_random])

\* step, lines 164-179: the opponent's ply and its clock charge
OpponentReply(e, d) ==
    AfterOpponent([e EXCEPT !.board = push(@, d.move),
                            !.black_time = @ - d.cost,
                            !.np_random = d.np_random])

\* A faulty variant of TimeoutReturn: the reason is left out of info
TimeoutSilent(e, is_white_turn) ==
    IF is_white_turn
    THEN Returned(e, -1, TRUE, {})
    ELSE Returned(e, IF e.self_play THEN -1 ELSE 1, TRUE, {})

\* step, lines 127-135: the return of a step whose mover's clock is expired
TimeoutReturn(e, is_white_turn) ==
    IF is_white_turn
    THEN Returned(e, -1, TRUE, {<<"reason", "timeout">>})
    ELSE Returned(e, IF e.self_play THEN -1 ELSE 1, TRUE, {<<"reason", "timeout">>})

\* A faulty variant of IllegalReturn: the illegal move is ignored and the
\* episode goes on
IllegalIgnored(e) == Returned(e, 0, FALSE, {})

\* A faulty variant of IllegalReturn: the penalty is paid but the episode
\* goes on
IllegalPenalised(e) == Returned(e, -10, FALSE, {<<"error", "illegal_move">>})

\* step, lines 140-143: the return for a move that is not legal
IllegalReturn(e) == Returned(e, -10, TRUE, {<<"error", "illegal_move">>})

\* A faulty variant of ApplyMove: the self_play test is left out, so the
\* opponent answers every White move
OpponentAlways(e, move, is_white_turn) ==
    LET e2 == [e EXCEPT !.board = push(@, move)]
    IN IF is_game_over(e2.board)
       THEN {_handle_game_over(e2)}
       ELSE IF is_white_turn
       THEN {OpponentReply(e2, d) : d \in OpponentDraws(e2, legal_moves(e2.board))}
       ELSE {Returned(e2, 0, FALSE, {})}

\* A faulty variant of ApplyMove: the opponent never replies
OpponentNever(e, move, is_white_turn) ==
    LET e2 == [e EXCEPT !.board = push(@, move)]
    IN IF is_game_over(e2.board)
       THEN {_handle_game_over(e2)}
       ELSE {Returned(e2, 0, FALSE, {})}

\* step, lines 145-179: apply the move, then the opponent
ApplyMove(e, move, is_white_turn) ==
    LET e2 == [e EXCEPT !.board = push(@, move)]
    IN IF is_game_over(e2.board)
       THEN {_handle_game_over(e2)}
       ELSE IF e2.self_play
       THEN {Returned(e2, 0, FALSE, {})}
       ELSE IF is_white_turn
       THEN LET legal == legal_moves(e2.board)
            IN IF legal = {}
               THEN {_handle_game_over(e2)}
               ELSE {OpponentReply(e2, d) : d \in OpponentDraws(e2, legal)}
       ELSE {Returned(e2, 0, FALSE, {})}

\* step, lines 137-179: decode and validate the move
PlayMove(e, move_idx, is_white_turn) ==
    IF PieceAtRaises(move_idx)
    THEN {Raised(e, "IndexError")}
    ELSE LET move == int_to_move(move_idx, e.board)
         IN IF ~is_legal(e.board, move)
            THEN {IllegalReturn(e)}
            ELSE ApplyMove(e, move, is_white_turn)

\* step, lines 119-179, for a move index and a sanitized elapsed time: the
\* set of (environment, return value) pairs the call can end in; one pair
\* unless an unseeded generator draws the opponent's ply
StepCharged(e, move_idx, elapsed_time) ==
    LET is_white_turn == e.board.turn = WHITE
        e1 == ChargeClock(e, elapsed_time)
    IN IF IsExpired(IF is_white_turn THEN e1.white_time ELSE e1.black_time)
       THEN {TimeoutReturn(e1, is_white_turn)}
       ELSE PlayMove(e1, move_idx, is_white_turn)

\* A faulty variant of step: the action is unpacked as a pair, so a bare
\* index or a 1-tuple raises
StepUnpacking(e, action) ==
    IF action.form = "tuple2"
    THEN StepCharged(e, action.move_idx, SanitizeElapsed(ElapsedOf(action)))
    ELSE {Raised(e, "TypeError")}

\* step(action)
step(e, action) ==
    StepCharged(e, action.move_idx, SanitizeElapsed(ElapsedOf(action)))

\* The pair (move_idx, elapsed) as an action
Pair(move_idx, elapsed) == [form |-> "tuple2", move_idx |-> move_idx, elapsed |-> elapsed]

\* ------------------------------------------------------------------------
\* wrappers/real_time.py: RealTimeClock
\* ------------------------------------------------------------------------

\* The latest wall-clock time (time.perf_counter(), in ticks) the model runs to
MaxWallClock == 4

\* The longest the caller waits before a call, in ticks
MaxThink == 2

\* The longest the inner reset or step takes, and the longest that passes
\* between two successive reads of the clock, in ticks
MaxInner == 1

\* __init__: self.last_time = None.  now is the wall clock.  The other
\* fields record the last call: op ("none", "reset", "step"), entered_at (when
\* step was called), was_armed (last_time was not None then), read_gap (the
\* time between the reads of lines 27 and 29), elapsed (the value handed to
\* the inner step), charged_from (when the observation before that call was
\* delivered, -1 if none had been) and delivered_at (when the latest
\* observation was delivered, -1 if none has been).
IdleHarness ==
    [now |-> 0, armed |-> FALSE, last_time |-> 0,
     op |-> "none", entered_at |-> 0, was_armed |-> FALSE, read_gap |-> 0,
     elapsed |-> 0, charged_from |-> 0 - 1, delivered_at |-> 0 - 1]

\* A faulty variant of RearmTime: the clock is restarted from the reading
\* taken before the inner step
RearmAtEntry(current_time, returned_time) == current_time

\* step, line 37: self.last_time = time.perf_counter(), read once the inner
\* step has returned
RearmTime(current_time, returned_time) == returned_time

\* reset(**kwargs): the inner reset takes inner_time; last_time is read as it
\* returns
HarnessReset(h, entered, inner_time) ==
    [h EXCEPT !.now = entered + inner_time,
              !.armed = TRUE,
              !.last_time = entered + inner_time,
              !.op = "reset",
              !.delivered_at = entered + inner_time]

\* step, lines 25-30: the elapsed time handed to the inner step.  An unarmed
\* wrapper reads the clock twice, read_gap apart.
HarnessElapsed(h, entered, read_gap) ==
    IF h.armed THEN entered - h.last_time ELSE read_gap

\* step, lines 25-39, around an inner step that took inner_time and ended as
\* inner_ret: last_time is read again only if the inner step returned
HarnessStep(h, entered, read_gap, inner_time, inner_ret) ==
    LET current_time == IF h.armed THEN entered ELSE entered + read_gap
        first_read == IF h.armed THEN h.last_time ELSE entered
        returned_time == current_time + inner_time
        returned == inner_ret.kind = "step"
    IN [now |-> returned_time,
        armed |-> TRUE,
        last_time |-> IF returned THEN RearmTime(current_time, returned_time)
                      ELSE first_read,
        op |-> "step",
        entered_at |-> entered,
        was_armed |-> h.armed,
        read_gap |-> IF h.armed THEN 0 ELSE read_gap,
        elapsed |-> HarnessElapsed(h, entered, read_gap),
        charged_from |-> h.delivered_at,
        delivered_at |-> IF returned THEN returned_time ELSE h.delivered_at]

\* ------------------------------------------------------------------------
\* The state machine: one environment driven by an agent
\* ------------------------------------------------------------------------

\* env:   the BulletChessEnv object (board, clocks, self_play, np_random)
\* ret:   what the last call handed back
\* phase: the episode as the caller sees it: "Constructed" before the first
\*        reset, "InProgress" after a reset, "Terminated" once a step has
\*        returned terminated=True
\* twin:  a second environment, used only by the replay specification
\* harness: the RealTimeClock wrapper around env and the wall clock it reads,
\*        used only by the harness specification
\* continued: how many steps of the current episode have returned
\*        terminated=False, counted only by the endurance specification
VARIABLES env, ret, phase, twin, harness, continued

vars == <<env, ret, phase, twin, harness, continued>>

\* The action index of a (from, to) pair
IndexOf(from_sq, to_sq) == from_sq * 64 + to_sq

\* Indices the agent submits that are no legal move, or no index at all:
\* a1a1, -1 (below the domain) and 4096 (above it)
BadIndices == {IndexOf(0, 0), -1, 4096}

\* Moves the agent submits as White against the random opponent: f2f3, g2g4,
\* e2e4, Qd1h5, Qh5xe5, and -4014, which is (-63, 18): b1c3 with the
\* from-square counted from the end of the table
WhiteIndices ==
    {IndexOf(13, 21), IndexOf(14, 30), IndexOf(12, 28), IndexOf(3, 39), IndexOf(39, 36),
     IndexOf(-63, 18)}

\* Moves the agent submits for both colors in self-play: f2f3, g2g4, e2e4,
\* Qd1h5, Qh5xe5 for White and e7e5, Ke8e7, Qd8h4 for Black
SelfPlayIndices ==
    {IndexOf(13, 21), IndexOf(14, 30), IndexOf(12, 28), IndexOf(3, 39), IndexOf(39, 36),
     IndexOf(52, 36), IndexOf(60, 52), IndexOf(59, 31)}

MoveIndices(self_play) ==
    BadIndices \cup (IF self_play THEN SelfPlayIndices ELSE WhiteIndices)

\* Elapsed times the agent submits
ElapsedInputs == {NaN, PosInf, NegInf, Fin(-5), Fin(0), Fin(2), Fin(initial_time)}

\* Actions the agent submits with a move index: the bare index, a 1-tuple,
\* or (index, elapsed)
ActionsFor(move_idx) ==
    {[form |-> f, move_idx |-> move_idx, elapsed |-> Fin(0)] : f \in {"int", "tuple1"}}
    \cup {[form |-> "tuple2", move_idx |-> move_idx, elapsed |-> x] : x \in ElapsedInputs}

Actions(self_play) == UNION {ActionsFor(i) : i \in MoveIndices(self_play)}

\* What the agent hands to reset: nothing, or a seed with or without the
\* self_play option
ResetInputs ==
    {[seed_given |-> FALSE, seed |-> 0, options |-> NoOptions]}
    \cup {[seed_given |-> TRUE, seed |-> s, options |-> o] :
             s \in Seeds, o \in {NoOptions, SelfPlayOption(TRUE), SelfPlayOption(FALSE)}}

\* The clock of the side to move
MoverClock(e) == IF e.board.turn = WHITE THEN e.white_time ELSE e.black_time

\* The model's bound on the agent's elapsed time
WithinOverrun(e, elapsed_time) == MoverClock(e) - elapsed_time >= 0 - MaxOverrun

\* Whether step(e, ...) with this move index and elapsed time reaches the
\* opponent's ply (lines 158-170), where the generator is drawn from
ReachesOpponent(e, move_idx, elapsed_time) ==
    /\ ~e.self_play
    /\ e.board.turn = WHITE
    /\ ~IsExpired(e.white_time - elapsed_time)
    /\ ~PieceAtRaises(move_idx)
    /\ is_legal(e.board, int_to_move(move_idx, e.board))
    /\ ~is_game_over(push(e.board, int_to_move(move_idx, e.board)))

\* The model's bound on the draws of a generator: a step that draws is taken
\* only while the generator has two draws left
WithinDraws(e, move_idx, elapsed_time) ==
    ReachesOpponent(e, move_idx, elapsed_time) =>
        e.np_random.n + 2 <= (IF e.np_random.seeded THEN MaxSeededDraws ELSE MaxEntropyDraws)

\* The caller's view of the episode after a call
PhaseAfter(p, r) == IF r.kind = "step" /\ r.terminated THEN "Terminated" ELSE p

\* The second environment while it is not in use
IdleTwin == [env |-> Constructed(FALSE), ret |-> NoReturn, synced |-> FALSE]

Init ==
    /\ \E sp \in BOOLEAN : env = Constructed(sp)
    /\ ret = NoReturn
    /\ phase = "Constructed"
    /\ twin = IdleTwin
    /\ harness = IdleHarness
    /\ continued = 0

\* env.reset(seed=..., options=...)
Reset ==
    \E in \in ResetInputs :
        LET r == reset(env, in.seed_given, in.seed, in.options)
        IN /\ env' = r.env
           /\ ret' = r.ret
           /\ phase' = "InProgress"
           /\ UNCHANGED <<twin, harness, continued>>

\* env.step(action): every action of the agent's with the same move index and
\* the same sanitized elapsed time is the same call of StepCharged
Step ==
    \E i \in MoveIndices(env.self_play) :
        \E t \in {SanitizeElapsed(ElapsedOf(a)) : a \in ActionsFor(i)} :
            /\ WithinOverrun(env, t)
            /\ WithinDraws(env, i, t)
            /\ \E o \in StepCharged(env, i, t) :
                  /\ env' = o.env
                  /\ ret' = o.ret
                  /\ phase' = PhaseAfter(phase, o.ret)
                  /\ UNCHANGED <<twin, harness, continued>>

Next == Reset \/ Step

Spec == Init /\ [][Next]_vars

\* ------------------------------------------------------------------------
\* Replay: two environments reset with one seed and driven by one script
\* ------------------------------------------------------------------------

\* The first environment runs alone, so that it comes to the replay with a
\* history (a used generator, a finished game, a self_play setting)
Prelude == ~twin.synced /\ Next

\* Options that give both environments the same self_play setting
SameSettingOptions ==
    {SelfPlayOption(TRUE), SelfPlayOption(FALSE)}
    \cup (IF env.self_play = twin.env.self_play THEN {NoOptions} ELSE {})

\* Both environments are reset with the same seed and self_play setting
SyncedReset ==
    \E s \in Seeds, opt \in SameSettingOptions :
        LET r1 == reset(env, TRUE, s, opt)
            r2 == reset(twin.env, TRUE, s, opt)
        IN /\ env' = r1.env
           /\ ret' = r1.ret
           /\ phase' = "InProgress"
           /\ twin' = [env |-> r2.env, ret |-> r2.ret, synced |-> TRUE]
           /\ UNCHANGED <<harness, continued>>

\* Both environments are given the same action; each draws from its own
\* generator
SyncedStep ==
    /\ twin.synced
    /\ \E i \in MoveIndices(env.self_play) :
          \E t \in {SanitizeElapsed(ElapsedOf(a)) : a \in ActionsFor(i)} :
              /\ WithinOverrun(env, t)
              /\ WithinDraws(env, i, t)
              /\ \E o1 \in StepCharged(env, i, t), o2 \in StepCharged(twin.env, i, t) :
                    /\ env' = o1.env
                    /\ ret' = o1.ret
                    /\ phase' = PhaseAfter(phase, o1.ret)
                    /\ twin' = [env |-> o2.env, ret |-> o2.ret, synced |-> TRUE]
                    /\ UNCHANGED <<harness, continued>>

ReplayNext == Prelude \/ SyncedReset \/ SyncedStep

ReplaySpec == Init /\ [][ReplayNext]_vars

\* ------------------------------------------------------------------------
\* The agent drives the environment through RealTimeClock
\* ------------------------------------------------------------------------

\* Indices the agent submits through the wrapper: f2f3, e2e4 and 4096
HarnessIndices == {IndexOf(13, 21), IndexOf(12, 28), 4096}

\* RealTimeClock.reset(seed=...)
WrappedReset ==
    \E s \in Seeds, think \in 0..MaxThink, inner_time \in 0..MaxInner :
        LET r == reset(env, TRUE, s, NoOptions)
            entered == harness.now + think
        IN /\ entered + inner_time <= MaxWallClock
           /\ env' = r.env
           /\ ret' = r.ret
           /\ phase' = "InProgress"
           /\ harness' = HarnessReset(harness, entered, inner_time)
           /\ UNCHANGED <<twin, continued>>

\* RealTimeClock.step(action).  The opponent's ply is explored with a seeded
\* generator only.
WrappedStep ==
    \E i \in HarnessIndices, think \in 0..MaxThink,
       read_gap \in 0..(IF harness.armed THEN 0 ELSE MaxInner),
       inner_time \in 0..MaxInner :
        LET entered == harness.now + think
            elapsed == HarnessElapsed(harness, entered, read_gap)
        IN /\ entered + read_gap + inner_time <= MaxWallClock
           /\ WithinOverrun(env, elapsed)
           /\ WithinDraws(env, i, elapsed)
           /\ ReachesOpponent(env, i, elapsed) => env.np_random.seeded
           /\ \E o \in step(env, Pair(i, Fin(elapsed))) :
                 /\ env' = o.env
                 /\ ret' = o.ret
                 /\ phase' = PhaseAfter(phase, o.ret)
                 /\ harness' = HarnessStep(harness, entered, read_gap, inner_time, o.ret)
                 /\ UNCHANGED <<twin, continued>>

ClockNext == WrappedReset \/ WrappedStep

ClockSpec == Init /\ [][ClockNext]_vars

\* ------------------------------------------------------------------------
\* A self-play game that takes no time, played from a script up to a promotion
\* ------------------------------------------------------------------------

\* 1. h4 g5 2. hxg5 h6 3. gxh6 Bg7 4. hxg7 Nf6 5. gxh8=Q+, as action indices
ScriptIndices ==
    {IndexOf(15, 31), IndexOf(54, 38), IndexOf(31, 38), IndexOf(55, 47),
     IndexOf(38, 47), IndexOf(61, 54), IndexOf(47, 54), IndexOf(62, 45),
     IndexOf(54, 63)}

\* reset(options={"self_play": True})
ScriptReset ==
    \E s \in Seeds :
        LET r == reset(env, TRUE, s, SelfPlayOption(TRUE))
        IN /\ env' = r.env
           /\ ret' = r.ret
           /\ phase' = "InProgress"
           /\ UNCHANGED <<twin, harness, continued>>

\* step((index, 0.0)) with an index of the script
ScriptStep ==
    /\ env.self_play
    /\ \E i \in ScriptIndices :
          \E o \in step(env, Pair(i, Fin(0))) :
              /\ env' = o.env
              /\ ret' = o.ret
              /\ phase' = PhaseAfter(phase, o.ret)
              /\ UNCHANGED <<twin, harness, continued>>

ScriptNext == ScriptReset \/ ScriptStep

ScriptSpec == Init /\ [][ScriptNext]_vars

\* ------------------------------------------------------------------------
\* Episodes against the opponent, played for as long as they last
\* ------------------------------------------------------------------------

\* Indices the agent plays: Ng1f3, Nb1c3, Nf3g1, e2e4 and d2d4
EnduranceIndices ==
    {IndexOf(6, 21), IndexOf(1, 18), IndexOf(21, 6), IndexOf(12, 28), IndexOf(11, 27)}

\* Elapsed times the agent reports, in ticks
EnduranceElapsed == {0, 1}

\* One more step has returned terminated=False in an episode still running
ContinuedAfter(n, p, r) ==
    IF p # "Terminated" /\ r.kind = "step" /\ ~r.terminated THEN n + 1 ELSE n

\* reset(seed=s) or reset(seed=s, options={"self_play": False})
EnduranceReset ==
    \E s \in Seeds, opt \in {NoOptions, SelfPlayOption(FALSE)} :
        LET r == reset(env, TRUE, s, opt)
        IN /\ ~r.env.self_play
           /\ env' = r.env
           /\ ret' = r.ret
           /\ phase' = "InProgress"
           /\ continued' = 0
           /\ UNCHANGED <<twin, harness>>

\* step((index, elapsed)) in an episode that has not ended; the opponent's
\* ply is explored with a seeded generator only
EnduranceStep ==
    /\ ~env.self_play
    /\ phase # "Terminated"
    /\ continued * OppCostLow <= initial_time
    /\ \E i \in EnduranceIndices, t \in EnduranceElapsed :
          /\ WithinOverrun(env, t)
          /\ ReachesOpponent(env, i, t) => env.np_random.seeded
          /\ \E o \in step(env, Pair(i, Fin(t))) :
                /\ env' = o.env
                /\ ret' = o.ret
                /\ phase' = PhaseAfter(phase, o.ret)
                /\ continued' = ContinuedAfter(continued, phase, o.ret)
                /\ UNCHANGED <<twin, harness>>

EnduranceNext == EnduranceReset \/ EnduranceStep

EnduranceSpec == Init /\ [][EnduranceNext]_vars

\* ------------------------------------------------------------------------
\* Properties
\* ------------------------------------------------------------------------

\* The keys of an info mapping
Keys(info) == {kv[1] : kv \in info}

\* The clock of the side to move once step has charged action's elapsed time
ChargedClock(e, action) ==
    MoverClock(e) - (IF ElapsedOf(action).cls = "fin" /\ ElapsedOf(action).val > 0
                     THEN ElapsedOf(action).val
                     ELSE 0)

\* C1: once a step has returned terminated=True, every further step fails
\* with an error and leaves the board and both clocks as they were, until
\* reset is called.
TerminatedRejectsStep ==
    phase = "Terminated" =>
        \A a \in Actions(env.self_play) :
            \A o \in step(env, a) :
                /\ o.ret.kind = "raise"
                /\ o.env.board = env.board
                /\ o.env.white_time = env.white_time
                /\ o.env.black_time = env.black_time

\* C2: while the mover's clock is still positive after the charge, a step
\* with an index of 0..4095 whose move is not among the legal moves returns
\* (obs, -10.0, True, False, {"error": "illegal_move"}) with the observation
\* of the state it leaves, and leaves the board as it was: no move pushed,
\* the same side to move, no opponent ply.
IllegalMoveTerminates ==
    LET legal == legal_moves(env.board)
    IN \A i \in MoveIndices(env.self_play) \cap (0..4095) :
          int_to_move(i, env.board) \notin legal
          => \A a \in ActionsFor(i) :
                ChargedClock(env, a) > 0
                => \A o \in step(env, a) :
                      /\ o.ret.kind = "step"
                      /\ o.ret.reward = -10
                      /\ o.ret.terminated
                      /\ ~o.ret.truncated
                      /\ o.ret.info = {<<"error", "illegal_move">>}
                      /\ o.ret.obs = _get_obs(o.env)
                      /\ o.env.board = env.board
                      /\ o.env.np_random = env.np_random

\* A game under way has ended on an illegal move
IllegalMoveSeen ==
    /\ ret.kind = "step"
    /\ ret.info = {<<"error", "illegal_move">>}
    /\ ret.reward = -10
    /\ env.board # StartingBoard
    /\ MoverClock(env) > 0

\* C3: whenever the mover's clock is <= 0 after the charge (exactly 0
\* included), the step ends the episode with reason "timeout" and leaves the
\* board as it was, whatever the move index is; the reward is -1.0 when White
\* is acting or self_play is set, +1.0 when Black is acting and it is not.
TimeoutPrecedesDecoding ==
    \A a \in Actions(env.self_play) :
        ChargedClock(env, a) <= 0
        => \A o \in step(env, a) :
              /\ o.ret.kind = "step"
              /\ o.ret.terminated
              /\ ~o.ret.truncated
              /\ o.ret.info = {<<"reason", "timeout">>}
              /\ o.env.board = env.board
              /\ o.env.np_random = env.np_random
              /\ o.ret.reward = (IF env.board.turn = WHITE \/ env.self_play THEN -1 ELSE 1)

\* A step has ended on the mover's clock at exactly zero
TimeoutAtZeroSeen ==
    /\ ret.kind = "step"
    /\ ret.info = {<<"reason", "timeout">>}
    /\ MoverClock(env) = 0

\* Two stalemates: Black to move with Kh8 against Kf7 and Qg6, and White to
\* move with Kh1 against Kf2 and Qg3
StalematePieces(k, other_k, other_q, color) ==
    [sq \in SQUARES |->
        IF sq = k THEN PieceCode(color, KING)
        ELSE IF sq = other_k THEN PieceCode(~color, KING)
        ELSE IF sq = other_q THEN PieceCode(~color, QUEEN)
        ELSE 0]

DrawnBoards ==
    {[pieces |-> StalematePieces(63, 53, 46, BLACK), turn |-> BLACK,
      castling_rights |-> {}, ep_square |-> {}],
     [pieces |-> StalematePieces(7, 13, 22, WHITE), turn |-> WHITE,
      castling_rights |-> {}, ep_square |-> {}]}

\* A drawn position resolves to reward 0.0 with the draw's result code
DrawsScoreZero ==
    \A b \in DrawnBoards, sp \in BOOLEAN :
        LET o == _handle_game_over([Constructed(sp) EXCEPT !.board = b])
        IN /\ is_stalemate(b)
           /\ o.ret.reward = 0
           /\ o.ret.terminated
           /\ o.ret.info = {<<"result", "1/2-1/2">>}

\* The reward of a finished game: +1.0 for "1-0", -1.0 for "0-1", 0.0 for a
\* draw, negated when self_play is set and White is to move
ResolvedReward(e) ==
    LET res == result(e.board)
        base == IF res = "1-0" THEN 1 ELSE IF res = "0-1" THEN 0 - 1 ELSE 0
    IN IF e.self_play /\ e.board.turn = WHITE THEN 0 - base ELSE base

\* The step just taken played the opponent's ply
OpponentPlied == ret'.kind = "step" /\ env'.np_random.n # env.np_random.n

\* C4: when the position is game over after a move (and the step did not end
\* on the opponent's clock), the step returns terminated=True, info
\* {"result": code} and the base reward (+1.0 for "1-0", -1.0 for "0-1", 0.0
\* for a draw) negated exactly when self_play is set and White is to move.  So
\* in self-play the side that mates gets +1.0, and against the random opponent
\* a Black win is -1.0.
GameOverResolution ==
    [][ /\ DrawsScoreZero
        /\ ( /\ ret'.kind = "step"
             /\ env'.board # env.board
             /\ is_game_over(env'.board)
             /\ ~(OpponentPlied /\ env'.black_time <= 0) )
           => /\ ret'.terminated
              /\ ~ret'.truncated
              /\ ret'.info = {<<"result", result(env'.board)>>}
              /\ ret'.reward = ResolvedReward(env')
              /\ (env'.self_play /\ is_checkmate(env'.board) => ret'.reward = 1)
              /\ (~env'.self_play /\ result(env'.board) = "0-1" => ret'.reward = 0 - 1)
      ]_vars

\* Black has mated in self-play and the step paid +1.0
BlackMateInSelfPlaySeen ==
    /\ ret.kind = "step"
    /\ ret.info = {<<"result", "0-1">>}
    /\ env.self_play
    /\ is_checkmate(env.board)
    /\ ret.reward = 1

\* C5: against the random opponent, once Black's ply and think time are
\* charged, an expired Black clock comes first: the step returns +1.0,
\* terminated=True, {"reason": "opponent_timeout"} even when Black's move ended
\* the game; the game-over resolution is used only while Black's clock is
\* still positive.
OpponentTimeoutPrecedence ==
    [][ OpponentPlied
        => /\ ~env.self_play
           /\ IF env'.black_time <= 0
              THEN /\ ret'.reward = 1
                   /\ ret'.terminated
                   /\ ret'.info = {<<"reason", "opponent_timeout">>}
              ELSE IF is_game_over(env'.board)
              THEN /\ ret'.terminated
                   /\ ret'.info = {<<"result", result(env'.board)>>}
              ELSE /\ ~ret'.terminated
                   /\ ret'.info = {}
      ]_vars

\* Black has mated on its last tenth of a second: the step ended on the clock
MateOnExpiredClockSeen ==
    /\ ret.kind = "step"
    /\ ret.info = {<<"reason", "opponent_timeout">>}
    /\ ret.reward = 1
    /\ ~env.self_play
    /\ env.black_time <= 0
    /\ is_checkmate(env.board)

\* C6: no step raises white_time or black_time, whatever elapsed time it is
\* given; only reset changes them upward, and it sets both to initial_time.
ClocksNeverIncrease ==
    [][ /\ ret'.kind # "reset"
           => /\ env'.white_time <= env.white_time
              /\ env'.black_time <= env.black_time
        /\ ret'.kind = "reset"
           => /\ env'.white_time = initial_time
              /\ env'.black_time = initial_time
      ]_vars

\* Both clocks have run down within an episode
BothClocksChargedSeen ==
    /\ ret.kind = "step"
    /\ env.white_time < initial_time
    /\ env.black_time < initial_time

\* The keys step may put in info
OutcomeKeys == {"reason", "error", "result"}

\* C8 as stated: every return of step carries exactly one of the keys reason,
\* error and result in info.
EveryInfoHasOneKey ==
    ret.kind = "step" => Cardinality(Keys(ret.info) \cap OutcomeKeys) = 1

\* C8: every return of step with terminated=True carries exactly one item in
\* info: reason ("timeout" or "opponent_timeout"), error ("illegal_move") or
\* result (the result code); every return with terminated=False carries an
\* empty info.
TerminalInfoHasOneKey ==
    ret.kind = "step" =>
        IF ret.terminated
        THEN /\ Cardinality(ret.info) = 1
             /\ \E kv \in ret.info :
                   \/ kv[1] = "reason" /\ kv[2] \in {"timeout", "opponent_timeout"}
                   \/ kv[1] = "error" /\ kv[2] = "illegal_move"
                   \/ kv[1] = "result" /\ kv[2] \in {"1-0", "0-1", "1/2-1/2"}
        ELSE ret.info = {}

\* A step has ended the episode with the result code as the one item of info
ResultInfoSeen ==
    /\ ret.kind = "step"
    /\ ret.terminated
    /\ ret.info = {<<"result", "1-0">>}

\* C7: a step with an index outside 0..4095, bare or in a pair, fails with an
\* InvalidAction error: it is not decoded into squares, does not end the
\* episode as an illegal move, and changes neither the board nor the clocks.
OutOfDomainRejected ==
    \A a \in Actions(env.self_play) :
        a.move_idx \notin 0..4095
        => \A o \in step(env, a) :
              /\ o.ret.kind = "raise"
              /\ o.ret.info = {<<"exception", "InvalidAction">>}
              /\ o.env.board = env.board
              /\ o.env.white_time = env.white_time
              /\ o.env.black_time = env.black_time

\* C9: two environments reset with the same seed and self_play setting and
\* given the same actions stay identical: the same board (so the same
\* opponent moves), clocks and generator, and the same observation, reward,
\* terminated flag and info from every call.
ReplayIdentical ==
    twin.synced => /\ twin.env = env
                   /\ twin.ret = ret

\* The replay has gone through two opponent plies
TwoPliesReplayedSeen ==
    /\ twin.synced
    /\ ret.kind = "step"
    /\ ~env.self_play
    /\ env.np_random.n = 4
    /\ env.black_time < initial_time

\* Everything reset may be handed
AllResetInputs ==
    {[seed_given |-> g, seed |-> s, options |-> o] :
        g \in BOOLEAN, s \in Seeds,
        o \in {NoOptions, SelfPlayOption(TRUE), SelfPlayOption(FALSE)}}

\* C10: in every state, reset leaves the starting position with White to
\* move, both clocks at initial_time and self_play at the option's value when
\* one is given (as it was otherwise), and returns the observation of that
\* state.
ResetRestoresStart ==
    \A in \in AllResetInputs :
        LET r == reset(env, in.seed_given, in.seed, in.options)
        IN /\ r.ret.kind = "reset"
           /\ r.env.board = StartingBoard
           /\ r.env.board.turn = WHITE
           /\ r.env.white_time = initial_time
           /\ r.env.black_time = initial_time
           /\ r.env.self_play = (IF in.options.given THEN in.options.self_play
                                 ELSE env.self_play)
           /\ r.ret.obs = _get_obs(r.env)
           /\ r.ret.obs.board = get_board_tensor(StartingBoard)
           /\ r.ret.obs.state[1] = 1
           /\ r.ret.obs.state[7] = TimeNorm(initial_time, initial_time)
           /\ r.ret.obs.state[8] = TimeNorm(initial_time, initial_time)

\* reset has been called on an environment that had played: its generator,
\* which reset without a seed keeps, has been drawn from
ResetAfterPlaySeen ==
    /\ ret.kind = "reset"
    /\ phase = "InProgress"
    /\ env.np_random.n > 0
    /\ env.board = StartingBoard
    /\ env.white_time = initial_time
    /\ env.black_time = initial_time

\* Elapsed values that step is to treat as 0.0
UnusableElapsed == {NaN, PosInf, NegInf, Fin(-5)}

\* C11: for every state and move index, a step whose elapsed value is NaN,
\* +infinity, -infinity or negative has the outcomes and successor states of
\* the same step with elapsed 0.0; the elapsed value raises no error and the
\* mover's clock is not charged.
SanitizedAsZero ==
    [](\A i \in MoveIndices(env.self_play) :
        WithinDraws(env, i, 0)
        => LET zero == step(env, Pair(i, Fin(0)))
           IN /\ \A x \in UnusableElapsed : step(env, Pair(i, x)) = zero
              /\ \A o \in zero :
                    /\ MoverClock([o.env EXCEPT !.board = env.board]) = MoverClock(env)
                    /\ o.ret.kind = "raise" => PieceAtRaises(i))

\* In a game under way with a clock run down, Black's Ke8e7 submitted with a
\* NaN elapsed time is played and Black's clock stays as it is
NaNStepPlayedSeen ==
    /\ ret.kind = "step"
    /\ ~ret.terminated
    /\ env.self_play
    /\ env.board.turn = BLACK
    /\ env.black_time < initial_time
    /\ \E o \in step(env, Pair(IndexOf(60, 52), NaN)) :
          /\ o.env.board # env.board
          /\ ~o.ret.terminated
          /\ o.env.black_time = env.black_time

\* The clock of the side that is not to move
WaitingClock(e) == IF e.board.turn = WHITE THEN e.black_time ELSE e.white_time

\* The clock of color in e
ClockOf(e, color) == IF color = WHITE THEN e.white_time ELSE e.black_time

\* Elapsed values that step charges as they are
UsableElapsed == {Fin(0), Fin(2), Fin(initial_time)}

\* C12: in self-play no step plays an opponent: every step leaves the
\* generator and the waiting side's clock as they were, and a legal move that
\* does not end the game (on a clock still positive after the charge) applies
\* that one ply, passes the turn, returns reward 0.0 and terminated=False and
\* takes the elapsed time from the mover's clock only.
SelfPlayOnePly ==
    [](env.self_play =>
        LET legal == legal_moves(env.board)
        IN \A i \in MoveIndices(TRUE) :
              LET move == int_to_move(i, env.board)
                  after == push(env.board, move)
                  plays == i \in 0..4095 /\ move \in legal /\ ~is_game_over(after)
              IN \A a \in {Pair(i, x) : x \in UsableElapsed} :
                    \A o \in step(env, a) :
                       /\ o.env.np_random = env.np_random
                       /\ ClockOf(o.env, ~env.board.turn) = WaitingClock(env)
                       /\ (plays /\ ChargedClock(env, a) > 0)
                          => /\ o.ret.kind = "step"
                             /\ o.ret.reward = 0
                             /\ ~o.ret.terminated
                             /\ o.env.board = after
                             /\ o.env.board.turn = ~env.board.turn
                             /\ ClockOf(o.env, env.board.turn) = ChargedClock(env, a))

\* In self-play White has moved on 0.2 s of its clock and Black's clock is
\* untouched
SelfPlayWhitePlySeen ==
    /\ env.self_play
    /\ ret.kind = "step"
    /\ ~ret.terminated
    /\ ret.reward = 0
    /\ env.board.turn = BLACK
    /\ env.white_time = initial_time - 2
    /\ env.black_time = initial_time
    /\ env.np_random.n = 0

\* C13: against the random opponent, with White to move, a legal move of
\* White's that does not end the game (on a clock still positive after the
\* charge) takes exactly the sanitized elapsed time from white_time and
\* nothing more, is answered by one legal move of Black's, and takes a think
\* time of 0.1 to 0.5 s from black_time; if the step returns terminated=False
\* its reward is 0.0 and White is to move again.  A step that does not get to
\* Black's move leaves black_time and the generator as they were.
WhitePaysOnlyItsOwnTime ==
    []((~env.self_play /\ env.board.turn = WHITE) =>
        LET legal == legal_moves(env.board)
        IN \A i \in MoveIndices(FALSE) \cap (0..4095) :
              LET move == int_to_move(i, env.board)
                  after == push(env.board, move)
                  plays == move \in legal /\ ~is_game_over(after)
                  replies == {push(after, r) : r \in legal_moves(after)}
              IN \A x \in UsableElapsed :
                    WithinDraws(env, i, x.val)
                    => \A o \in step(env, Pair(i, x)) :
                          IF plays /\ env.white_time - x.val > 0
                          THEN /\ o.ret.kind = "step"
                               /\ o.env.white_time = env.white_time - x.val
                               /\ env.black_time - o.env.black_time \in OppCostLow..OppCostHigh
                               /\ o.env.board \in replies
                               /\ o.env.np_random.n = env.np_random.n + 2
                               /\ ~o.ret.terminated
                                  => o.ret.reward = 0 /\ o.env.board.turn = WHITE
                          ELSE /\ o.env.black_time = env.black_time
                               /\ o.env.np_random = env.np_random
                               /\ o.env.board \in {env.board, after})

\* White has opened with no elapsed time and Black has answered: white_time
\* is whole and black_time is not
OpeningAnsweredSeen ==
    /\ ~env.self_play
    /\ ret.kind = "step"
    /\ ~ret.terminated
    /\ ret.reward = 0
    /\ env.board.turn = WHITE
    /\ env.np_random.n = 2
    /\ env.white_time = initial_time
    /\ env.black_time < initial_time

\* The bare index and the 1-tuple as actions
Bare(move_idx) == [form |-> "int", move_idx |-> move_idx, elapsed |-> Fin(0)]

Single(move_idx) == [form |-> "tuple1", move_idx |-> move_idx, elapsed |-> Fin(0)]

\* C14: from the same state, step(i) has the outcomes and successor states
\* of step((i, 0.0)), and so has step((i,)); in neither form is the mover's
\* clock charged.
BareIndexIsZeroPair ==
    [](\A i \in MoveIndices(env.self_play) :
        WithinDraws(env, i, 0)
        => LET pair == step(env, Pair(i, Fin(0)))
           IN /\ step(env, Bare(i)) = pair
              /\ step(env, Single(i)) = pair
              /\ \A o \in pair :
                    MoverClock([o.env EXCEPT !.board = env.board]) = MoverClock(env))

\* Against the seeded opponent's e7e5, the bare index of g2g4 is played and
\* White's clock stays as it is
BareIndexPlayedSeen ==
    /\ ~env.self_play
    /\ env.np_random.seeded
    /\ env.np_random.n = 2
    /\ ret.kind = "step"
    /\ ~ret.terminated
    /\ \E o \in step(env, Bare(IndexOf(14, 30))) :
          /\ o.env.board # env.board
          /\ o.env.white_time = env.white_time
          /\ o.env.black_time < env.black_time

\* C15: every return of step has truncated=False and a reward of -10.0,
\* -1.0, 0.0 or +1.0; a return with terminated=False has reward 0.0, so a
\* reward other than 0.0 comes only with terminated=True.
RewardOnlyAtTermination ==
    ret.kind = "step" =>
        /\ ~ret.truncated
        /\ ret.reward \in {-10, -1, 0, 1}
        /\ ~ret.terminated => ret.reward = 0
        /\ ret.reward # 0 => ret.terminated

\* The random opponent has won: a step has returned -1.0 with
\* terminated=True
OpponentWinSeen ==
    /\ ret.kind = "step"
    /\ ~env.self_play
    /\ ret.terminated
    /\ ~ret.truncated
    /\ ret.reward = -1
    /\ ret.info = {<<"result", "0-1">>}

\* C16: in every observation reset or step hands back, entries 6 and 7 of
\* the state vector (7 and 8 counting from 1) are max(0, white_time) and
\* max(0, black_time) over initial_time and lie in [0.0, 1.0]: a clock below
\* zero reads 0.0 and none reads above 1.0.
ClockEntriesInUnitRange ==
    ret.kind \in {"reset", "step"} =>
        /\ Len(ret.obs.state) = 8
        /\ ret.obs.state[7].den = initial_time
        /\ ret.obs.state[8].den = initial_time
        /\ ret.obs.state[7].num = (IF env.white_time < 0 THEN 0 ELSE env.white_time)
        /\ ret.obs.state[8].num = (IF env.black_time < 0 THEN 0 ELSE env.black_time)
        /\ ret.obs.state[7].num \in 0..initial_time
        /\ ret.obs.state[8].num \in 0..initial_time

\* A step has run White's clock below zero and the observation reads 0.0
NegativeClockReadsZeroSeen ==
    /\ ret.kind = "step"
    /\ env.white_time < 0
    /\ ret.obs.state[7].num = 0
    /\ ret.info = {<<"reason", "timeout">>}

ActionSpace == 0..4095

\* C18: on every board, every index of 0..4095 decodes to the move from
\* index / 64 to index % 64, which carries promotion = Queen exactly when the
\* from-square holds a White pawn and the to-square is on rank 7, or holds a
\* Black pawn and the to-square is on rank 0, whichever side is to move;
\* every other move carries no promotion.
AutoQueenDecoding ==
    \A from_sq \in SQUARES :
        LET piece == env.board.pieces[from_sq]
        IN \A to_sq \in SQUARES :
              LET move == int_to_move(IndexOf(from_sq, to_sq), env.board)
                  queens == \/ piece = PieceCode(WHITE, PAWN) /\ square_rank(to_sq) = 7
                            \/ piece = PieceCode(BLACK, PAWN) /\ square_rank(to_sq) = 0
              IN /\ IndexOf(from_sq, to_sq) \in ActionSpace
                 /\ move.from_square = from_sq
                 /\ move.to_square = to_sq
                 /\ move.promotion = (IF queens THEN QUEEN ELSE 0)

\* The script's last index has been played: step pushed the decoded move
\* g7h8 with promotion = Queen, and a White queen stands on h8
PawnQueenedSeen ==
    /\ ret.kind = "step"
    /\ env.board.turn = BLACK
    /\ env.board.pieces[63] = PieceCode(WHITE, QUEEN)
    /\ env.board.pieces[54] = 0
    /\ env.board.pieces[3] = PieceCode(WHITE, QUEEN)

\* C19: when self_play is off, every step made after a reset and before the
\* episode's first terminated=True begins with White to move; if it returns
\* terminated=False it leaves White to move; it changes Black's clock only
\* by the think time drawn for the opponent's ply; and it never returns
\* reward +1.0 with reason "timeout".
AgentAlwaysWhite ==
    [][(/\ phase = "InProgress"
        /\ ~env.self_play
        /\ ret'.kind \in {"step", "raise"})
       => /\ env.board.turn = WHITE
          /\ (ret'.kind = "step" /\ ~ret'.terminated) => env'.board.turn = WHITE
          /\ ret'.kind = "raise" => env'.board.turn = WHITE
          /\ env'.black_time # env.black_time
             => /\ OpponentPlied
                /\ env.black_time - env'.black_time \in OppCostLow..OppCostHigh
          /\ ~(ret'.reward = 1 /\ <<"reason", "timeout">> \in ret'.info)]_vars

\* A second move of White has been answered in an episode with self_play
\* off, after White used some of its time
SecondReplySeen ==
    /\ phase = "InProgress"
    /\ ~env.self_play
    /\ ret.kind = "step"
    /\ ~ret.terminated
    /\ env.np_random.n = 4
    /\ env.board.turn = WHITE
    /\ env.white_time < initial_time
    /\ env.black_time < initial_time

\* C20: with self_play off, every step of an episode that returned
\* terminated=False took at least the shortest think time from Black's clock
\* and left it above zero, so fewer than initial_time / OppCostLow steps of
\* one episode return terminated=False (600 at 60.0 s and 0.1 s) and the
\* step after the last of them returns terminated=True.
EpisodeEndsInTime ==
    ~env.self_play
    => /\ continued * OppCostLow <= initial_time - env.black_time
       /\ (continued > 0 /\ phase # "Terminated") => env.black_time > 0
       /\ continued * OppCostLow < initial_time

\* An episode that lasted as long as one can: every reply took the shortest
\* think time and the last one ran Black's clock out
LongestEpisodeSeen ==
    /\ ~env.self_play
    /\ phase = "Terminated"
    /\ continued = (initial_time \div OppCostLow) - 1
    /\ env.black_time = 0
    /\ env.white_time = initial_time
    /\ ret.reward = 1
    /\ ret.info = {<<"reason", "opponent_timeout">>}

====
